---- MODULE Spec2Model ----
(***************************************************************************)
(* Model of google__pytype-1353/run_verification.py: the differential      *)
(* verification harness.  main() resets the repository, applies patches,   *)
(* runs pytest twice, classifies every test's pre/post status into four    *)
(* categories, writes results.json and exits.                              *)
(*                                                                         *)
(* Test node identifiers are the integers 1..NumTests; their numeric order *)
(* stands for Python's string order used by sorted().                      *)
(***************************************************************************)
EXTENDS Integers, Sequences, FiniteSets, TLC

VARIABLES
    pc,                 \* position of main()
    test_patch,         \* content of SCRIPT_DIR/test.patch (NoPatch: no file)
    code_patch,         \* content of SCRIPT_DIR/code.patch (NoPatch: no file)
    tree,               \* working tree of REPO_DIR
    report_file,        \* SCRIPT_DIR/report_<pid>.xml (NoFile: no file)
    test_files_to_run,  \* main's local: the test scope
    pre_patch_results,  \* main's local
    post_patch_results, \* main's local
    results,            \* the module-level results[INSTANCE_ID] record
    results_json,       \* content of SCRIPT_DIR/results.json (NoFile: none)
    exit_arg,           \* argument handed to write_results_and_exit
    exit_code,          \* process exit status (NoExit while running)
    cmds,               \* history: every run_command call, in order
    steps,              \* history: every step of main, in order, with outcome
    xml_cases,          \* parse_junit_xml_report: the testcase elements of the report
    parse_i,            \* parse_junit_xml_report: testcase elements already visited
    test_results,       \* parse_junit_xml_report's local dict
    patch_text,         \* get_modified_test_files_from_patch: the lines of the patch file
    scan_i,             \* get_modified_test_files_from_patch: lines already read
    modified_files,     \* get_modified_test_files_from_patch's local set
    file_list,          \* get_modified_test_files_from_patch's return value
    class_name,         \* parse_junit_xml_report: classname of a testcase element
    test_name,          \* parse_junit_xml_report: name of a testcase element
    nodeid              \* parse_junit_xml_report: the identifier built from them

\* the variables of the loop of parse_junit_xml_report
parse_vars == <<xml_cases, parse_i, test_results>>

\* the variables of main
main_vars == <<pc, test_patch, code_patch, tree, report_file, test_files_to_run,
               pre_patch_results, post_patch_results, results, results_json,
               exit_arg, exit_code, cmds, steps>>

\* the variables of the loop of get_modified_test_files_from_patch
scan_vars == <<patch_text, scan_i, modified_files, file_list>>

\* the variables of the nodeid construction of parse_junit_xml_report
nodeid_vars == <<class_name, test_name, nodeid>>

\* the locals of the functions that main's steps run as a whole
function_vars == <<parse_vars, scan_vars, nodeid_vars>>

vars == <<main_vars, function_vars>>

-----------------------------------------------------------------------------
(* Bounds *)

NumTests == 2

\* testcase elements in a report of ParseSpec
MaxCases == 3

\* lines in a patch of ScopeSpec
MaxLines == 3

\* dot-separated segments in a classname of NodeIdSpec
MaxSegments == 3

Tests == 1..NumTests

-----------------------------------------------------------------------------
(* Values *)

EmptyMap == <<>>

\* A patch file: absent, or a sequence of file diffs; readable is FALSE when
\* the file is there and opening or reading it fails.
NoPatch == [exists |-> FALSE, readable |-> FALSE, diffs |-> <<>>]

\* The report file: absent, or an XML document that is well-formed or not;
\* map is the status its test cases give to each identifier.
NoFile == [exists |-> FALSE, wellformed |-> FALSE, map |-> EmptyMap]

\* Python's Optional[dict]
None == [is_none |-> TRUE, map |-> EmptyMap]
Some(m) == [is_none |-> FALSE, map |-> m]

\* file_list before get_modified_test_files_from_patch returns
NotReturned == [returned |-> FALSE, files |-> <<>>]

\* exit_code while the process runs
NoExit == -1


Status == {"passed", "failed", "error"}

\* A status map is a Python dict: a function on the identifiers it holds.
StatusMaps == UNION {[S -> Status] : S \in SUBSET Tests}

Categories == {"FAIL_TO_PASS", "PASS_TO_PASS", "FAIL_TO_FAIL", "PASS_TO_FAIL"}

\* The paths of the model, in ascending string order (ASCII).
AllPaths == <<"README.md", "pkg/mod_test.py", "tests/reference.py",
              "tests/test_kerns.py", "tests/test_likelihoods.py">>

PathSet == {AllPaths[i] : i \in 1..Len(AllPaths)}

PathRank(p) == CHOOSE i \in 1..Len(AllPaths) : AllPaths[i] = p

\* path.endswith('.py')
EndsWithPy(p) == p \in {"pkg/mod_test.py", "tests/reference.py",
                        "tests/test_kerns.py", "tests/test_likelihoods.py"}

DEFAULT_TEST_FILES == <<"tests/reference.py", "tests/test_kerns.py",
                        "tests/test_likelihoods.py">>

\* Files of the repository at BASE_COMMIT (among the paths of the model).
BaseFiles == {"README.md", "pkg/mod_test.py"}

\* A diff adds, modifies or deletes a path.
Diff(p, o) == [path |-> p, op |-> o]
Patch(ds) == [exists |-> TRUE, readable |-> TRUE, diffs |-> ds]
UnreadablePatch == [exists |-> TRUE, readable |-> FALSE, diffs |-> <<>>]

TestPatches == {NoPatch,
                Patch(<<Diff("pkg/mod_test.py", "modify")>>),
                Patch(<<Diff("README.md", "modify")>>),
                Patch(<<Diff("tests/test_kerns.py", "add")>>),
                UnreadablePatch}

CodePatches == {NoPatch,
                Patch(<<Diff("README.md", "modify")>>),
                Patch(<<Diff("pkg/mod_test.py", "delete")>>),
                Patch(<<Diff("tests/reference.py", "add")>>)}

\* Files a command can leave behind in the working tree.  An "untracked" file
\* is removed by `git clean -df`; an "ignored" one (matching .gitignore, such
\* as __pycache__ or .pytest_cache) is not, since -x is not given.
JunkKinds == {"untracked", "ignored"}

RECURSIVE SortedSeqDescending(_)
\* SortedSeq with the order reversed
SortedSeqDescending(S) ==
    IF S = {} THEN <<>>
    ELSE LET m == CHOOSE x \in S : \A y \in S : x >= y
         IN <<m>> \o SortedSeqDescending(S \ {m})

RECURSIVE SortedSeq(_)
\* sorted(list(S)) for a set of test identifiers
SortedSeq(S) ==
    IF S = {} THEN <<>>
    ELSE LET m == CHOOSE x \in S : \A y \in S : x <= y
         IN <<m>> \o SortedSeq(S \ {m})

RECURSIVE SortedPaths(_)
\* sorted(list(S)) for a set of paths
SortedPaths(S) ==
    IF S = {} THEN <<>>
    ELSE LET m == CHOOSE x \in S : \A y \in S : PathRank(x) <= PathRank(y)
         IN <<m>> \o SortedPaths(S \ {m})

\* FilterSeq that keeps every entry
FilterSeqKeepingAll(s, S) == s

RECURSIVE FilterSeq(_, _)
\* the entries of s that are in S, in the order of s
FilterSeq(s, S) ==
    IF s = <<>> THEN <<>>
    ELSE IF Head(s) \in S THEN <<Head(s)>> \o FilterSeq(Tail(s), S)
         ELSE FilterSeq(Tail(s), S)

-----------------------------------------------------------------------------
(* Repository State Controller *)

\* `git reset --hard BASE_COMMIT`: every tracked file is restored to the
\* baseline; files that a patch created are untracked and stay.
GitResetHard(t) ==
    [t EXCEPT !.patches = <<>>, !.files = BaseFiles \cup (t.files \ BaseFiles)]

\* `git clean -df`: untracked files and directories are removed, except the
\* ignored ones.
GitClean(t) ==
    [t EXCEPT !.files = t.files \cap BaseFiles,
              !.junk = t.junk \cap {"ignored"}]

\* reset_repo(BASE_COMMIT); hard_ok, clean_ok: whether the two commands succeed
reset_repo(t, hard_ok, clean_ok) ==
    IF ~hard_ok
    THEN [ret |-> FALSE, tree |-> t, cmds |-> <<[cmd |-> "git reset", ok |-> FALSE]>>]
    ELSE IF ~clean_ok
    THEN [ret |-> FALSE, tree |-> GitResetHard(t),
          cmds |-> <<[cmd |-> "git reset", ok |-> TRUE],
                     [cmd |-> "git clean", ok |-> FALSE]>>]
    ELSE [ret |-> TRUE, tree |-> GitClean(GitResetHard(t)),
          cmds |-> <<[cmd |-> "git reset", ok |-> TRUE],
                     [cmd |-> "git clean", ok |-> TRUE]>>]

RECURSIVE ApplyDiffs(_, _)
\* the files after the diffs of a patch; ok is FALSE when a diff does not apply
ApplyDiffs(files, diffs) ==
    IF diffs = <<>> THEN [ok |-> TRUE, files |-> files]
    ELSE LET d == Head(diffs)
         IN IF d.op = "add"
            THEN IF d.path \in files THEN [ok |-> FALSE, files |-> files]
                 ELSE ApplyDiffs(files \cup {d.path}, Tail(diffs))
            ELSE IF d.path \notin files THEN [ok |-> FALSE, files |-> files]
            ELSE IF d.op = "delete"
                 THEN ApplyDiffs(files \ {d.path}, Tail(diffs))
                 ELSE ApplyDiffs(files, Tail(diffs))

\* apply_patch treating a missing patch file as a failure
ApplyPatchMissingFails(t, patch, name, hunks_ok) ==
    LET after == ApplyDiffs(t.files, patch.diffs)
    IN IF patch.exists /\ patch.readable /\ hunks_ok /\ after.ok
       THEN [ret |-> TRUE,
             tree |-> [t EXCEPT !.patches = Append(t.patches, name),
                                !.files = after.files],
             cmds |-> <<[cmd |-> "git apply", ok |-> TRUE, patch |-> name]>>]
       ELSE [ret |-> FALSE, tree |-> t,
             cmds |-> <<[cmd |-> "git apply", ok |-> FALSE, patch |-> name]>>]

\* apply_patch(patch_path); name: which patch; hunks_ok: whether the hunks of
\* the diff match the content of the files
apply_patch(t, patch, name, hunks_ok) ==
    IF ~patch.exists
    THEN [ret |-> TRUE, tree |-> t, cmds |-> <<>>]
    ELSE LET after == ApplyDiffs(t.files, patch.diffs)
         IN IF patch.readable /\ hunks_ok /\ after.ok
            THEN [ret |-> TRUE,
                  tree |-> [t EXCEPT !.patches = Append(t.patches, name),
                                     !.files = after.files],
                  cmds |-> <<[cmd |-> "git apply", ok |-> TRUE, patch |-> name]>>]
            ELSE [ret |-> FALSE, tree |-> t,
                  cmds |-> <<[cmd |-> "git apply", ok |-> FALSE, patch |-> name]>>]

-----------------------------------------------------------------------------
(* Patch Scope Resolver *)

\* The paths named by the '--- a/' and '+++ b/' header lines of a patch: an
\* added file has the old side /dev/null, a deleted one the new side.
HeaderPaths(patch) == {patch.diffs[i].path : i \in 1..Len(patch.diffs)}

\* get_modified_test_files_from_patch returning the list it collected
GetModifiedWithoutFallback(patch) ==
    IF ~patch.exists THEN DEFAULT_TEST_FILES
    ELSE IF ~patch.readable THEN DEFAULT_TEST_FILES
    ELSE SortedPaths({p \in HeaderPaths(patch) : EndsWithPy(p)})

get_modified_test_files_from_patch(patch) ==
    IF ~patch.exists THEN DEFAULT_TEST_FILES
    ELSE IF ~patch.readable THEN DEFAULT_TEST_FILES
    ELSE LET files == {p \in HeaderPaths(patch) : EndsWithPy(p)}
             sorted_files == SortedPaths(files)
         IN IF sorted_files = <<>> THEN DEFAULT_TEST_FILES ELSE sorted_files

-----------------------------------------------------------------------------
(* Test Execution Adapter *)

\* What one pytest invocation can do.
\*   not_found: the executable is missing, nothing is written
\*   no_report: pytest ran and wrote no report
\*   garbled:   pytest ran and wrote a report that is not well-formed XML
\*   report:    pytest ran and wrote a report whose test cases give map
PytestOutcomes ==
    {[kind |-> k, map |-> EmptyMap] : k \in {"not_found", "no_report", "garbled"}}
    \cup {[kind |-> "report", map |-> m] : m \in StatusMaps}

\* the report file after the pytest command
ReportAfterPytest(report, out) ==
    IF out.kind = "report"
    THEN [exists |-> TRUE, wellformed |-> TRUE, map |-> out.map]
    ELSE IF out.kind = "garbled"
    THEN [exists |-> TRUE, wellformed |-> FALSE, map |-> EmptyMap]
    ELSE report

\* parse_junit_xml_report(report_path); unlink_ok: whether the deletion works
parse_junit_xml_report(report, unlink_ok) ==
    IF ~report.exists
    THEN [ret |-> None, report |-> report]
    ELSE [ret |-> IF report.wellformed THEN Some(report.map) ELSE None,
          report |-> IF unlink_ok THEN NoFile ELSE report]

\* run_all_tests_and_get_results giving None when pytest exits non-zero
\* because a test failed
RunAllTestsCheckingExit(test_files, t, report, phase, out, junk, unlink_ok) ==
    LET existing_test_files == FilterSeq(test_files, t.files)
        ran == out.kind # "not_found"
        parsed == parse_junit_xml_report(ReportAfterPytest(report, out), unlink_ok)
        nonzero == \E test \in DOMAIN out.map : out.map[test] # "passed"
    IN [ret |-> IF nonzero THEN None ELSE parsed.ret,
        report |-> parsed.report,
        tree |-> IF ran
                 THEN [t EXCEPT !.junk = t.junk \cup junk]
                 ELSE t,
        cmds |-> <<[cmd |-> "pytest", ok |-> ran, files |-> existing_test_files,
                    phase |-> phase, kind |-> out.kind]>>]

\* run_all_tests_and_get_results(test_files); phase: "pre" or "post";
\* junk: the files the run leaves in the working tree
run_all_tests_and_get_results(test_files, t, report, phase, out, junk, unlink_ok) ==
    LET existing_test_files == FilterSeq(test_files, t.files)
        ran == out.kind # "not_found"
        parsed == parse_junit_xml_report(ReportAfterPytest(report, out), unlink_ok)
    IN [ret |-> parsed.ret,
        report |-> parsed.report,
        tree |-> IF ran
                 THEN [t EXCEPT !.junk = t.junk \cup junk]
                 ELSE t,
        cmds |-> <<[cmd |-> "pytest", ok |-> ran, files |-> existing_test_files,
                    phase |-> phase, kind |-> out.kind]>>]

-----------------------------------------------------------------------------
(* Differential Classifier *)

\* dict.get(k, default)
Get(d, k, default) == IF k \in DOMAIN d THEN d[k] ELSE default

\* PreStatus with the default of the post side
PreStatusFailedDefault(pre, test) == Get(pre, test, "failed")

\* pre_patch_results.get(test, "passed")
PreStatus(pre, test) == Get(pre, test, "passed")

\* post_patch_results.get(test, "failed")
PostStatus(post, test) == Get(post, test, "failed")

\* Bucket with a test that keeps failing put in the success list
BucketFailToFailAsSuccess(ts, test, pre_status, post_status) ==
    IF pre_status = "failed" /\ post_status = "passed"
    THEN [ts EXCEPT !["FAIL_TO_PASS"].success = Append(@, test)]
    ELSE IF pre_status = "passed" /\ post_status = "passed"
    THEN [ts EXCEPT !["PASS_TO_PASS"].success = Append(@, test)]
    ELSE IF pre_status = "failed" /\ post_status = "failed"
    THEN [ts EXCEPT !["FAIL_TO_FAIL"].success = Append(@, test)]
    ELSE IF pre_status = "passed" /\ post_status = "failed"
    THEN [ts EXCEPT !["PASS_TO_FAIL"].failure = Append(@, test)]
    ELSE ts

\* the if/elif chain of the classification loop, for one test
Bucket(ts, test, pre_status, post_status) ==
    IF pre_status = "failed" /\ post_status = "passed"
    THEN [ts EXCEPT !["FAIL_TO_PASS"].success = Append(@, test)]
    ELSE IF pre_status = "passed" /\ post_status = "passed"
    THEN [ts EXCEPT !["PASS_TO_PASS"].success = Append(@, test)]
    ELSE IF pre_status = "failed" /\ post_status = "failed"
    THEN [ts EXCEPT !["FAIL_TO_FAIL"].failure = Append(@, test)]
    ELSE IF pre_status = "passed" /\ post_status = "failed"
    THEN [ts EXCEPT !["PASS_TO_FAIL"].failure = Append(@, test)]
    ELSE ts

RECURSIVE Categorize(_, _, _, _)
\* for test in sorted(list(all_tests_run)): ...
Categorize(ts, tests, pre, post) ==
    IF tests = <<>> THEN ts
    ELSE LET test == Head(tests)
         IN Categorize(Bucket(ts, test, PreStatus(pre, test), PostStatus(post, test)),
                       Tail(tests), pre, post)

\* Verdict without the requirement of a fixed test
VerdictWithoutFixedTest(ts) ==
    /\ ts["FAIL_TO_FAIL"].failure = <<>>
    /\ ts["PASS_TO_FAIL"].failure = <<>>

\* Verdict without the regression check
VerdictIgnoringRegressions(ts) ==
    /\ ts["FAIL_TO_PASS"].success # <<>>
    /\ ts["FAIL_TO_FAIL"].failure = <<>>

\* fail_to_pass and not fail_to_fail and not pass_to_fail
Verdict(ts) ==
    /\ ts["FAIL_TO_PASS"].success # <<>>
    /\ ts["FAIL_TO_FAIL"].failure = <<>>
    /\ ts["PASS_TO_FAIL"].failure = <<>>

-----------------------------------------------------------------------------
(* Result Sink *)

EmptyBuckets == [c \in Categories |-> [success |-> <<>>, failure |-> <<>>]]

\* InitResults with resolved set from the start
InitResultsResolved ==
    [patch_is_None |-> FALSE,
     patch_exists |-> TRUE,
     patch_successfully_applied |-> FALSE,
     resolved |-> TRUE,
     tests_status |-> EmptyBuckets]

\* the module-level results[INSTANCE_ID]
InitResults ==
    [patch_is_None |-> FALSE,
     patch_exists |-> TRUE,
     patch_successfully_applied |-> FALSE,
     resolved |-> FALSE,
     tests_status |-> EmptyBuckets]

\* results.json before the job writes it
NoRecord == [written |-> FALSE, record |-> InitResults]

-----------------------------------------------------------------------------
(* Run Orchestrator: main() *)

CleanTree == [patches |-> <<>>, files |-> BaseFiles, junk |-> {}]

\* The working tree a previous job left: patched, with its leftover files.
DirtyTree ==
    [patches |-> <<"test", "code">>,
     files |-> BaseFiles \cup {"tests/reference.py"},
     junk |-> JunkKinds]

Init ==
    /\ pc = "resolve_scope"
    /\ test_patch \in TestPatches
    /\ code_patch \in CodePatches
    /\ tree \in {CleanTree, DirtyTree}
    /\ report_file = NoFile
    /\ test_files_to_run = <<>>
    /\ pre_patch_results = None
    /\ post_patch_results = None
    /\ results = InitResults
    /\ results_json = NoRecord
    /\ exit_arg = FALSE
    /\ exit_code = NoExit
    /\ cmds = <<>>
    /\ steps = <<>>
    /\ xml_cases = <<>>
    /\ parse_i = 0
    /\ test_results = EmptyMap
    /\ patch_text = <<>>
    /\ scan_i = 0
    /\ modified_files = {}
    /\ file_list = NotReturned
    /\ class_name = <<>>
    /\ test_name = <<>>
    /\ nodeid = <<>>

Step(name, ok) == [step |-> name, ok |-> ok]

\* Continue without the check of the step's outcome
ContinueUnchecked(ok, next) ==
    /\ pc' = next
    /\ exit_arg' = FALSE

\* `if not <step>: write_results_and_exit(False)`, else go on to next
Continue(ok, next) ==
    /\ pc' = IF ok THEN next ELSE "write_results"
    /\ exit_arg' = FALSE

\* test_files_to_run = get_modified_test_files_from_patch(test_patch_path)
ResolveScope ==
    /\ pc = "resolve_scope"
    /\ test_files_to_run' = get_modified_test_files_from_patch(test_patch)
    /\ steps' = Append(steps, Step("resolve_scope", TRUE))
    /\ pc' = "pre_reset"
    /\ UNCHANGED function_vars
    /\ UNCHANGED <<test_patch, code_patch, tree, report_file, pre_patch_results,
                   post_patch_results, results, results_json, exit_arg,
                   exit_code, cmds>>

\* if not reset_repo(BASE_COMMIT): write_results_and_exit(False)
Reset(at, next) ==
    /\ pc = at
    /\ \E hard_ok, clean_ok \in BOOLEAN :
          LET r == reset_repo(tree, hard_ok, clean_ok)
          IN /\ tree' = r.tree
             /\ cmds' = cmds \o r.cmds
             /\ steps' = Append(steps, Step("reset", r.ret))
             /\ Continue(r.ret, next)
    /\ UNCHANGED function_vars
    /\ UNCHANGED <<test_patch, code_patch, report_file, test_files_to_run,
                   pre_patch_results, post_patch_results, results,
                   results_json, exit_code>>

PreReset == Reset("pre_reset", "pre_apply_test")

\* PostReset without the reset
PostResetSkipped ==
    /\ pc = "post_reset"
    /\ pc' = "post_apply_test"
    /\ UNCHANGED function_vars
    /\ UNCHANGED <<test_patch, code_patch, tree, report_file, test_files_to_run,
                   pre_patch_results, post_patch_results, results, results_json,
                   exit_arg, exit_code, cmds, steps>>

PostReset == Reset("post_reset", "post_apply_test")

\* if not apply_patch(test_patch_path): write_results_and_exit(False)
ApplyTest(at, next) ==
    /\ pc = at
    /\ \E hunks_ok \in BOOLEAN :
          LET r == apply_patch(tree, test_patch, "test", hunks_ok)
          IN /\ tree' = r.tree
             /\ cmds' = cmds \o r.cmds
             /\ steps' = Append(steps, Step("apply_test", r.ret))
             /\ Continue(r.ret, next)
    /\ UNCHANGED function_vars
    /\ UNCHANGED <<test_patch, code_patch, report_file, test_files_to_run,
                   pre_patch_results, post_patch_results, results,
                   results_json, exit_code>>

PreApplyTest == ApplyTest("pre_apply_test", "pre_run")

PostApplyTest == ApplyTest("post_apply_test", "post_apply_code")

\* PostApplyCode with the flag set before the outcome is checked
PostApplyCodeFlagFirst ==
    /\ pc = "post_apply_code"
    /\ \E hunks_ok \in BOOLEAN :
          LET r == apply_patch(tree, code_patch, "code", hunks_ok)
          IN /\ tree' = r.tree
             /\ cmds' = cmds \o r.cmds
             /\ steps' = Append(steps, Step("apply_code", r.ret))
             /\ results' = [results EXCEPT !.patch_successfully_applied = TRUE]
             /\ Continue(r.ret, "post_run")
    /\ UNCHANGED function_vars
    /\ UNCHANGED <<test_patch, code_patch, report_file, test_files_to_run,
                   pre_patch_results, post_patch_results, results_json,
                   exit_code>>

\* if not apply_patch(SCRIPT_DIR / "code.patch"): write_results_and_exit(False)
\* results[INSTANCE_ID]["patch_successfully_applied"] = True
PostApplyCode ==
    /\ pc = "post_apply_code"
    /\ \E hunks_ok \in BOOLEAN :
          LET r == apply_patch(tree, code_patch, "code", hunks_ok)
          IN /\ tree' = r.tree
             /\ cmds' = cmds \o r.cmds
             /\ steps' = Append(steps, Step("apply_code", r.ret))
             /\ results' = IF r.ret
                           THEN [results EXCEPT !.patch_successfully_applied = TRUE]
                           ELSE results
             /\ Continue(r.ret, "post_run")
    /\ UNCHANGED function_vars
    /\ UNCHANGED <<test_patch, code_patch, report_file, test_files_to_run,
                   pre_patch_results, post_patch_results, results_json,
                   exit_code>>

\* pre_patch_results = run_all_tests_and_get_results(test_files_to_run)
\* if pre_patch_results is None: write_results_and_exit(False)
PreRun ==
    /\ pc = "pre_run"
    /\ \E out \in PytestOutcomes, junk \in SUBSET JunkKinds, unlink_ok \in BOOLEAN :
          LET r == run_all_tests_and_get_results(test_files_to_run, tree,
                       report_file, "pre", out, junk, unlink_ok)
          IN /\ tree' = r.tree
             /\ report_file' = r.report
             /\ cmds' = cmds \o r.cmds
             /\ pre_patch_results' = r.ret
             /\ steps' = Append(steps, Step("run_pre", ~r.ret.is_none))
             /\ Continue(~r.ret.is_none, "post_reset")
    /\ UNCHANGED function_vars
    /\ UNCHANGED <<test_patch, code_patch, test_files_to_run,
                   post_patch_results, results, results_json, exit_code>>

\* post_patch_results = run_all_tests_and_get_results(test_files_to_run)
\* if post_patch_results is None: write_results_and_exit(False)
PostRun ==
    /\ pc = "post_run"
    /\ \E out \in PytestOutcomes, junk \in SUBSET JunkKinds, unlink_ok \in BOOLEAN :
          LET r == run_all_tests_and_get_results(test_files_to_run, tree,
                       report_file, "post", out, junk, unlink_ok)
          IN /\ tree' = r.tree
             /\ report_file' = r.report
             /\ cmds' = cmds \o r.cmds
             /\ post_patch_results' = r.ret
             /\ steps' = Append(steps, Step("run_post", ~r.ret.is_none))
             /\ Continue(~r.ret.is_none, "classify")
    /\ UNCHANGED function_vars
    /\ UNCHANGED <<test_patch, code_patch, test_files_to_run,
                   pre_patch_results, results, results_json, exit_code>>

\* the classification loop and the verdict
Classify ==
    /\ pc = "classify"
    /\ LET pre == pre_patch_results.map
           post == post_patch_results.map
           all_tests_run == DOMAIN pre \cup DOMAIN post
           ts == Categorize(results.tests_status, SortedSeq(all_tests_run), pre, post)
           resolved == Verdict(ts)
       IN /\ results' = [results EXCEPT !.tests_status = ts,
                                        !.resolved = resolved]
          /\ exit_arg' = resolved
    /\ steps' = Append(steps, Step("classify", TRUE))
    /\ pc' = "write_results"
    /\ UNCHANGED function_vars
    /\ UNCHANGED <<test_patch, code_patch, tree, report_file, test_files_to_run,
                   pre_patch_results, post_patch_results, results_json,
                   exit_code, cmds>>

\* write_results_and_exit that returns only for a successful job
WriteResultsOnlyOnSuccess ==
    /\ pc = "write_results"
    /\ exit_arg
    /\ \E write_ok \in BOOLEAN :
          /\ results_json' = IF write_ok
                             THEN [written |-> TRUE, record |-> results]
                             ELSE results_json
          /\ steps' = Append(steps, Step("persist", write_ok))
    /\ exit_code' = IF exit_arg THEN 0 ELSE 1
    /\ pc' = "exited"
    /\ UNCHANGED function_vars
    /\ UNCHANGED <<test_patch, code_patch, tree, report_file, test_files_to_run,
                   pre_patch_results, post_patch_results, results, exit_arg,
                   cmds>>

\* write_results_and_exit(success); write_ok: whether open and json.dump work
write_results_and_exit ==
    /\ pc = "write_results"
    /\ \E write_ok \in BOOLEAN :
          /\ results_json' = IF write_ok
                             THEN [written |-> TRUE, record |-> results]
                             ELSE results_json
          /\ steps' = Append(steps, Step("persist", write_ok))
    /\ exit_code' = IF exit_arg THEN 0 ELSE 1
    /\ pc' = "exited"
    /\ UNCHANGED function_vars
    /\ UNCHANGED <<test_patch, code_patch, tree, report_file, test_files_to_run,
                   pre_patch_results, post_patch_results, results, exit_arg,
                   cmds>>

Next ==
    \/ ResolveScope
    \/ PreReset
    \/ PreApplyTest
    \/ PreRun
    \/ PostReset
    \/ PostApplyTest
    \/ PostApplyCode
    \/ PostRun
    \/ Classify
    \/ write_results_and_exit

Spec == Init /\ [][Next]_vars

\* Every external command returns and Python runs main statement after
\* statement, so a step of main that can be taken is taken.
\* The jobs of FairSpec start in the tree a previous job left, with each of
\* the two patch files absent or present.
FairInit ==
    /\ Init
    /\ tree = DirtyTree
    /\ test_patch \in {NoPatch, Patch(<<Diff("pkg/mod_test.py", "modify")>>)}
    /\ code_patch \in {NoPatch, Patch(<<Diff("README.md", "modify")>>)}

FairSpec == FairInit /\ [][Next]_vars /\ WF_vars(Next)

TypeOK ==
    /\ pc \in {"resolve_scope", "pre_reset", "pre_apply_test", "pre_run",
               "post_reset", "post_apply_test", "post_apply_code", "post_run",
               "classify", "write_results", "exited"}
    /\ exit_code \in {NoExit, 0, 1}
    /\ exit_arg \in BOOLEAN
    /\ pre_patch_results.map \in StatusMaps
    /\ post_patch_results.map \in StatusMaps
    /\ tree.files \subseteq PathSet
    /\ tree.junk \subseteq JunkKinds

-----------------------------------------------------------------------------
(* Vocabulary of the properties *)

\* the classification loop has run
Classified == \E i \in 1..Len(steps) : steps[i].step = "classify"

\* some reset, apply or test run failed
Aborted == \E i \in 1..Len(steps) : steps[i].step # "persist" /\ ~steps[i].ok

\* write_results_and_exit has been entered and the process has exited
Exited == pc = "exited"

AllTestsRun == DOMAIN pre_patch_results.map \cup DOMAIN post_patch_results.map

\* how often test occurs in list s
Count(s, test) == Cardinality({i \in 1..Len(s) : s[i] = test})

\* how often test occurs in the eight bucket lists of ts
Occurrences(ts, test) ==
    Count(ts["FAIL_TO_PASS"].success, test) + Count(ts["FAIL_TO_PASS"].failure, test)
    + Count(ts["PASS_TO_PASS"].success, test) + Count(ts["PASS_TO_PASS"].failure, test)
    + Count(ts["FAIL_TO_FAIL"].success, test) + Count(ts["FAIL_TO_FAIL"].failure, test)
    + Count(ts["PASS_TO_FAIL"].success, test) + Count(ts["PASS_TO_FAIL"].failure, test)

InList(s, test) == \E i \in 1..Len(s) : s[i] = test

\* test is in exactly the given bucket list, once, and in no other
OnlyIn(ts, cat, bucket, test) ==
    /\ Count(ts[cat][bucket], test) = 1
    /\ Occurrences(ts, test) = 1

\* a status map with every error replaced by failed
Normalized(m) == [t \in DOMAIN m |-> IF m[t] = "error" THEN "failed" ELSE m[t]]

NonPassing(m, test) == test \in DOMAIN m /\ m[test] \in {"failed", "error"}

Passing(m, test) == test \in DOMAIN m /\ m[test] = "passed"

-----------------------------------------------------------------------------
(* C1..C5: the classifier *)

\* C1: after classification every identifier of keys(pre) \cup keys(post) is in
\* exactly one of the eight bucket lists.
C1_ExactlyOneBucket ==
    Classified =>
        \A test \in AllTestsRun : Occurrences(results.tests_status, test) = 1

\* C2: in the record persisted after classification, resolved is true iff the
\* FAIL_TO_PASS success list is non-empty and the FAIL_TO_FAIL and PASS_TO_FAIL
\* failure lists are empty; one fixed plus one regressed test gives
\* resolved = false.
C2_ResolvedIff ==
    (Classified /\ results_json.written) =>
        LET rec == results_json.record
            pre == pre_patch_results.map
            post == post_patch_results.map
        IN /\ rec.resolved <=>
                 (/\ Len(rec.tests_status["FAIL_TO_PASS"].success) > 0
                  /\ Len(rec.tests_status["FAIL_TO_FAIL"].failure) = 0
                  /\ Len(rec.tests_status["PASS_TO_FAIL"].failure) = 0)
           /\ (\E fixed, regressed \in AllTestsRun :
                  /\ fixed \in DOMAIN pre /\ pre[fixed] = "failed"
                  /\ Passing(post, fixed)
                  /\ Passing(pre, regressed)
                  /\ regressed \in DOMAIN post /\ post[regressed] = "failed")
              => ~rec.resolved

C2_Witness ==
    /\ Classified /\ results_json.written
    /\ Len(results_json.record.tests_status["FAIL_TO_PASS"].success) > 0
    /\ Len(results_json.record.tests_status["PASS_TO_FAIL"].failure) > 0
    /\ ~results_json.record.resolved

\* C3: a status of error is classified exactly as failed: replacing every error
\* by failed in both maps gives the same buckets and the same verdict.
C3_ErrorAsFailed ==
    Classified =>
        LET pre == Normalized(pre_patch_results.map)
            post == Normalized(post_patch_results.map)
            ts == Categorize(EmptyBuckets, SortedSeq(AllTestsRun), pre, post)
        IN /\ results.tests_status = ts
           /\ results.resolved = Verdict(ts)

\* C4: when the job ends with resolved = true, some test went from non-passing
\* to passing and every test seen in either run passes in the post run.
C4_ResolvedMeansClean ==
    (Exited /\ results.resolved) =>
        /\ \E test \in AllTestsRun :
              /\ NonPassing(pre_patch_results.map, test)
              /\ Passing(post_patch_results.map, test)
        /\ \A test \in AllTestsRun : Passing(post_patch_results.map, test)

\* C5: an identifier only in post is classified as if pre were passed
\* (PASS_TO_PASS success or PASS_TO_FAIL failure); an identifier only in pre as
\* if post were failed (FAIL_TO_FAIL failure or PASS_TO_FAIL failure).
C5_MissingDefaults ==
    Classified =>
        LET pre == pre_patch_results.map
            post == post_patch_results.map
            ts == results.tests_status
        IN /\ \A test \in DOMAIN post \ DOMAIN pre :
                /\ post[test] = "passed" => OnlyIn(ts, "PASS_TO_PASS", "success", test)
                /\ post[test] = "failed" => OnlyIn(ts, "PASS_TO_FAIL", "failure", test)
           /\ \A test \in DOMAIN pre \ DOMAIN post :
                /\ pre[test] = "failed" => OnlyIn(ts, "FAIL_TO_FAIL", "failure", test)
                /\ pre[test] = "passed" => OnlyIn(ts, "PASS_TO_FAIL", "failure", test)

C5_Witness ==
    /\ Classified
    /\ \E a, b \in Tests :
          /\ a \in DOMAIN post_patch_results.map \ DOMAIN pre_patch_results.map
          /\ post_patch_results.map[a] = "failed"
          /\ b \in DOMAIN pre_patch_results.map \ DOMAIN post_patch_results.map
          /\ pre_patch_results.map[b] = "passed"

-----------------------------------------------------------------------------
(* C6..C10: the orchestrator *)

\* after a failed step nothing but the write of the record follows
NothingAfterFailure ==
    \A i \in 1..Len(steps) :
        (steps[i].step # "persist" /\ ~steps[i].ok) =>
            /\ Len(steps) <= i + 1
            /\ \A j \in (i + 1)..Len(steps) : steps[j].step = "persist"

\* C6 as stated: after a failed reset, apply or test run no further step is
\* performed, the record is persisted with resolved = false and the exit
\* status is non-zero.
C6_AbortPersistsRecord ==
    Aborted =>
        /\ NothingAfterFailure
        /\ ~Classified
        /\ Exited => /\ results_json.written
                     /\ ~results_json.record.resolved
                     /\ exit_code # 0

\* C6 amended: after a failed reset, apply or test run no further step is
\* performed; the write of the record is attempted, the record holds
\* resolved = false, what is written is that record, and the exit status is
\* non-zero.
C6_AbortAttemptsPersist ==
    Aborted =>
        /\ NothingAfterFailure
        /\ ~Classified
        /\ ~results.resolved
        /\ Exited => /\ steps[Len(steps)].step = "persist"
                     /\ results_json.written => results_json.record = results
                     /\ results_json.written => ~results_json.record.resolved
                     /\ exit_code = 1

C6_Witness ==
    /\ Aborted /\ Exited
    /\ steps[Len(steps) - 1] = Step("run_post", FALSE)
    /\ results_json.written
    /\ exit_code = 1

\* C7: the exit status is 0 only when resolved is true and the record was
\* written; it is non-zero when the job aborted, resolved is false or the write
\* failed.
C7_ExitStatus ==
    Exited =>
        /\ exit_code = 0 => (results.resolved /\ results_json.written)
        /\ (Aborted \/ ~results.resolved \/ ~results_json.written) => exit_code # 0

\* the patches that exist, in the order main applies them for a run
KnownStack(phase) ==
    (IF test_patch.exists THEN <<"test">> ELSE <<>>)
    \o (IF phase = "post" /\ code_patch.exists THEN <<"code">> ELSE <<>>)

\* the baseline with the known patch stack of a run and nothing else
KnownTree(phase) ==
    LET with_test == ApplyDiffs(BaseFiles, test_patch.diffs).files
        with_code == ApplyDiffs(with_test, code_patch.diffs).files
    IN [patches |-> KnownStack(phase),
        files |-> IF phase = "post" THEN with_code ELSE with_test,
        junk |-> {}]

\* C8: when a test run starts, the working tree is the baseline plus exactly
\* the known patch stack of that run, with nothing left from earlier commands.
C8_CleanTreeAtRun ==
    /\ pc = "pre_run" => tree = KnownTree("pre")
    /\ pc = "post_run" => tree = KnownTree("post")

\* C9: the scope is computed first, before any reset, and both runs hand the
\* same files to the test runner.
C9_SameFilesBothRuns ==
    /\ Len(steps) > 0 => steps[1].step = "resolve_scope"
    /\ Len(cmds) > 0 => steps[1].step = "resolve_scope"
    /\ \A i, j \in 1..Len(cmds) :
          (cmds[i].cmd = "pytest" /\ cmds[j].cmd = "pytest")
              => cmds[i].files = cmds[j].files

FixedOrder ==
    <<"resolve_scope", "reset", "apply_test", "run_pre", "reset", "apply_test",
      "apply_code", "run_post", "classify", "persist">>

\* C10: the steps occur in the fixed order, each after the previous one
\* succeeded (the write of an aborted job follows the failed step); every apply
\* follows a reset with no test run in between; the code patch is not applied
\* before the pre run has completed.
C10_FixedOrder ==
    LET n == Len(steps)
        abort_write == n > 0 /\ n < Len(FixedOrder) /\ steps[n].step = "persist"
        m == IF abort_write THEN n - 1 ELSE n
    IN /\ m <= Len(FixedOrder)
       /\ \A i \in 1..m : steps[i].step = FixedOrder[i]
       /\ \A i \in 2..m : steps[i - 1].ok
       /\ abort_write => (m >= 1 /\ ~steps[m].ok)
       /\ \A i \in 1..n :
             steps[i].step \in {"apply_test", "apply_code"} =>
                \E j \in 1..(i - 1) :
                    /\ steps[j] = Step("reset", TRUE)
                    /\ \A k \in j..i : steps[k].step \notin {"run_pre", "run_post"}
       /\ \A i \in 1..n :
             steps[i].step = "apply_code" =>
                \E j \in 1..(i - 1) : steps[j] = Step("run_pre", TRUE)
       /\ \A i \in 1..Len(cmds) :
             cmds[i].cmd = "git apply" =>
                \E j \in 1..(i - 1) :
                    /\ cmds[j].cmd = "git clean" /\ cmds[j].ok
                    /\ \A k \in j..i : cmds[k].cmd # "pytest"

C10_Witness ==
    /\ Exited
    /\ Len(steps) = Len(FixedOrder)
    /\ \A i \in 1..Len(steps) : steps[i].ok
    /\ \E i \in 1..Len(cmds) : cmds[i].cmd = "git apply" /\ cmds[i].patch = "code"

-----------------------------------------------------------------------------
(* C11: the buckets as a function of the two maps *)

ListSet(s) == {s[i] : i \in 1..Len(s)}

\* ascending, no identifier twice
StrictlyAscending(s) == \A i, j \in 1..Len(s) : i < j => s[i] < s[j]

\* the tests whose pre and post status, with the defaults, are the given ones
TestsWith(pre_status, post_status) ==
    {test \in AllTestsRun :
        /\ Get(pre_patch_results.map, test, "passed") = pre_status
        /\ Get(post_patch_results.map, test, "failed") = post_status}

\* C11: the buckets are determined by the two status maps alone (so a second
\* classification of the same maps gives the same buckets), and every bucket
\* list is in ascending order with no identifier repeated.
C11_DeterministicSortedBuckets ==
    Classified =>
        LET ts == results.tests_status
        IN /\ \A c \in Categories :
                StrictlyAscending(ts[c].success) /\ StrictlyAscending(ts[c].failure)
           /\ ListSet(ts["FAIL_TO_PASS"].success) = TestsWith("failed", "passed")
           /\ ListSet(ts["PASS_TO_PASS"].success) = TestsWith("passed", "passed")
           /\ ListSet(ts["FAIL_TO_FAIL"].failure) = TestsWith("failed", "failed")
           /\ ListSet(ts["PASS_TO_FAIL"].failure) = TestsWith("passed", "failed")
           /\ ts["FAIL_TO_PASS"].failure = <<>> /\ ts["PASS_TO_PASS"].failure = <<>>
           /\ ts["FAIL_TO_FAIL"].success = <<>> /\ ts["PASS_TO_FAIL"].success = <<>>

C11_Witness ==
    /\ Classified
    /\ \E c \in Categories :
          Len(results.tests_status[c].success) + Len(results.tests_status[c].failure) >= 2

-----------------------------------------------------------------------------
(* Test Execution Adapter: the loop of parse_junit_xml_report over the       *)
(* testcase elements of a well-formed report                                 *)

\* A testcase element: the node identifier its classname and name give, and
\* which of the children failure, error, skipped it has.
TestCases ==
    [id : Tests, failure : BOOLEAN, error : BOOLEAN, skipped : BOOLEAN]

\* the reports of at most MaxCases testcase elements
Reports == UNION {[1..n -> TestCases] : n \in 0..MaxCases}

\* test_results[nodeid] = status
Store(d, k, v) == [x \in DOMAIN d \cup {k} |-> IF x = k THEN v ELSE d[x]]

\* ParseTestCase with a skipped test case stored as passed
ParseTestCaseKeepingSkipped(d, testcase) ==
    IF testcase.failure THEN Store(d, testcase.id, "failed")
    ELSE IF testcase.error THEN Store(d, testcase.id, "error")
    ELSE Store(d, testcase.id, "passed")

\* the if/elif chain on failure_node, error_node, skipped_node
ParseTestCase(d, testcase) ==
    IF testcase.failure THEN Store(d, testcase.id, "failed")
    ELSE IF testcase.error THEN Store(d, testcase.id, "error")
    ELSE IF ~testcase.skipped THEN Store(d, testcase.id, "passed")
    ELSE d

\* the state of main while ParseSpec runs the loop
MainIdle ==
    /\ pc = "pre_run"
    /\ test_patch = NoPatch
    /\ code_patch = NoPatch
    /\ tree = CleanTree
    /\ report_file = NoFile
    /\ test_files_to_run = DEFAULT_TEST_FILES
    /\ pre_patch_results = None
    /\ post_patch_results = None
    /\ results = InitResults
    /\ results_json = NoRecord
    /\ exit_arg = FALSE
    /\ exit_code = NoExit
    /\ cmds = <<>>
    /\ steps = <<>>

\* get_modified_test_files_from_patch is not running
ScanIdle ==
    /\ patch_text = <<>>
    /\ scan_i = 0
    /\ modified_files = {}
    /\ file_list = NotReturned

\* no nodeid is being built
NodeIdIdle ==
    /\ class_name = <<>>
    /\ test_name = <<>>
    /\ nodeid = <<>>

\* test_results = {} before the loop, for any report
ParseInit ==
    /\ MainIdle
    /\ ScanIdle
    /\ NodeIdIdle
    /\ xml_cases \in Reports
    /\ parse_i = 0
    /\ test_results = EmptyMap

\* one iteration of `for testcase in root.iter("testcase")`
ParseNextCase ==
    /\ parse_i < Len(xml_cases)
    /\ parse_i' = parse_i + 1
    /\ test_results' = ParseTestCase(test_results, xml_cases[parse_i + 1])
    /\ UNCHANGED <<xml_cases, main_vars, scan_vars, nodeid_vars>>

ParseNext == ParseNextCase

ParseSpec == ParseInit /\ [][ParseNext]_vars

\* the loop has visited every testcase element
ParseDone == parse_i = Len(xml_cases)

-----------------------------------------------------------------------------
(* C12: the status of a test case *)

\* the status the claim gives to a test case ("absent": not in the map)
CaseStatus(testcase) ==
    IF testcase.failure THEN "failed"
    ELSE IF testcase.error THEN "error"
    ELSE IF testcase.skipped THEN "absent"
    ELSE "passed"

MapStatus(d, id) == IF id \in DOMAIN d THEN d[id] ELSE "absent"

\* C12 as stated: every test case of the report has, in the returned map, the
\* status its children give (failure: failed, else error: error, else skipped:
\* absent, else passed).
C12_EveryCaseStatus ==
    ParseDone =>
        \A i \in 1..Len(xml_cases) :
            MapStatus(test_results, xml_cases[i].id) = CaseStatus(xml_cases[i])

\* the last test case with this identifier that the loop stores (0: none)
LastStored(id) ==
    LET stored == {i \in 1..Len(xml_cases) :
                      xml_cases[i].id = id /\ CaseStatus(xml_cases[i]) # "absent"}
    IN IF stored = {} THEN 0 ELSE CHOOSE i \in stored : \A j \in stored : j <= i

\* C12 amended: for every identifier, the returned map holds the status of the
\* last test case with that identifier that is not merely skipped, and does
\* not hold the identifier when all its test cases are merely skipped; so a
\* test case whose identifier no other test case shares has the status its
\* children give.
C12_LastStoredCaseStatus ==
    ParseDone =>
        /\ DOMAIN test_results \subseteq {xml_cases[i].id : i \in 1..Len(xml_cases)}
        /\ \A id \in Tests :
              MapStatus(test_results, id) =
                  IF LastStored(id) = 0 THEN "absent"
                  ELSE CaseStatus(xml_cases[LastStored(id)])
        /\ \A i \in 1..Len(xml_cases) :
              (\A j \in 1..Len(xml_cases) : j # i => xml_cases[j].id # xml_cases[i].id)
                  => MapStatus(test_results, xml_cases[i].id) = CaseStatus(xml_cases[i])

C12_Witness ==
    /\ ParseDone
    /\ \E i, j \in 1..Len(xml_cases) :
          /\ i < j
          /\ xml_cases[i].id = xml_cases[j].id
          /\ xml_cases[i].failure
          /\ CaseStatus(xml_cases[j]) = "absent"
          /\ test_results[xml_cases[i].id] = "failed"
    /\ \E i \in 1..Len(xml_cases) :
          /\ \A j \in 1..Len(xml_cases) : j # i => xml_cases[j].id # xml_cases[i].id
          /\ CaseStatus(xml_cases[i]) = "absent"

-----------------------------------------------------------------------------
(* C13, C14: missing, unreadable and empty patches *)

\* the patch names no path that ends in .py on a header line
NoQualifyingPath(patch) == \A p \in HeaderPaths(patch) : ~EndsWithPy(p)

ApplyOfMissingPatch ==
    \/ pc \in {"pre_apply_test", "post_apply_test"} /\ ~test_patch.exists
    \/ pc = "post_apply_code" /\ ~code_patch.exists

\* the position of main after a successful apply step
AfterApply ==
    IF pc = "pre_apply_test" THEN "pre_run"
    ELSE IF pc = "post_apply_test" THEN "post_apply_code"
    ELSE "post_run"

\* C14: applying a patch whose file does not exist succeeds, runs no command,
\* leaves the working tree unchanged, and the job goes on to the next step.
C14_MissingPatchNoOp ==
    [][ApplyOfMissingPatch =>
          /\ tree' = tree
          /\ cmds' = cmds
          /\ steps'[Len(steps')].ok
          /\ pc' = AfterApply]_vars

C14_Witness ==
    /\ pc = "post_run"
    /\ ~test_patch.exists /\ ~code_patch.exists
    /\ \A i \in 1..Len(cmds) : cmds[i].cmd # "git apply"
    /\ steps[Len(steps)] = Step("apply_code", TRUE)

-----------------------------------------------------------------------------
(* C15, C16: the report file *)

\* a test run step of main has been performed
HasRun == \E i \in 1..Len(steps) : steps[i].step \in {"run_pre", "run_post"}

\* C15: once parse_junit_xml_report has returned, the report file does not
\* exist, so no report is there when the post run starts.
C15_ReportDeleted ==
    /\ HasRun => ~report_file.exists
    /\ pc = "post_run" => ~report_file.exists

\* the pytest command of a phase did not produce a parseable report
NoUsableReport(phase) ==
    \E i \in 1..Len(cmds) :
        /\ cmds[i].cmd = "pytest"
        /\ cmds[i].phase = phase
        /\ cmds[i].kind # "report"

\* C16: when the test runner cannot be started or leaves no report or an
\* unparseable one in either run, the job aborts: no classification, the
\* record that is written has resolved = false, the exit status is non-zero;
\* a status map is only built from the report of the current run.
C16_NoReportAborts ==
    /\ NoUsableReport("pre") => pre_patch_results.is_none
    /\ NoUsableReport("post") => post_patch_results.is_none
    /\ (NoUsableReport("pre") \/ NoUsableReport("post")) =>
          /\ Aborted
          /\ ~Classified
          /\ ~results.resolved
          /\ Exited => (exit_code # 0 /\ steps[Len(steps)].step = "persist")

-----------------------------------------------------------------------------
(* C17: one pytest command per run *)

\* the pytest commands of a phase, as positions in cmds
PytestCmds(phase) ==
    {i \in 1..Len(cmds) : cmds[i].cmd = "pytest" /\ cmds[i].phase = phase}

\* the run step of a phase has been performed
RunDone(name) == \E i \in 1..Len(steps) : steps[i].step = name

RunOk(name) == \E i \in 1..Len(steps) : steps[i] = Step(name, TRUE)

\* C17: each run invokes the test runner exactly once, and a run whose pytest
\* wrote a parseable report goes on, whatever the statuses in the report.
C17_OnePytestPerRun ==
    /\ Cardinality(PytestCmds("pre")) = (IF RunDone("run_pre") THEN 1 ELSE 0)
    /\ Cardinality(PytestCmds("post")) = (IF RunDone("run_post") THEN 1 ELSE 0)
    /\ \A i \in PytestCmds("pre") : cmds[i].kind = "report" => RunOk("run_pre")
    /\ \A i \in PytestCmds("post") : cmds[i].kind = "report" => RunOk("run_post")
    /\ (RunOk("run_pre") /\ pc # "write_results" /\ pc # "exited") =>
          pc \in {"post_reset", "post_apply_test", "post_apply_code", "post_run",
                  "classify"}

C17_Witness ==
    /\ pc = "classify"
    /\ \E test \in DOMAIN pre_patch_results.map :
          pre_patch_results.map[test] = "failed"
    /\ \E test \in DOMAIN post_patch_results.map :
          post_patch_results.map[test] = "failed"
    /\ \A i \in PytestCmds("post") : cmds[i].kind = "report"

-----------------------------------------------------------------------------
(* C18: classification is total *)

\* both runs have given main a status map
BothMapsObtained == ~pre_patch_results.is_none /\ ~post_patch_results.is_none

\* C18: once both status maps are there, classification can always be done
\* and leads to the write of the record with a verdict; with both maps empty
\* every bucket is empty and resolved is false.
C18_ClassificationTotal ==
    /\ BothMapsObtained => pc \in {"classify", "write_results", "exited"}
    /\ pc = "classify" => (BothMapsObtained /\ ENABLED Classify)
    /\ (BothMapsObtained /\ pc = "write_results") =>
          /\ Classified
          /\ ENABLED write_results_and_exit
          /\ results.resolved \in BOOLEAN
          /\ exit_arg = results.resolved
    /\ (Classified /\ AllTestsRun = {}) =>
          /\ results.tests_status = EmptyBuckets
          /\ ~results.resolved

C18_Witness ==
    /\ pc = "write_results"
    /\ Classified
    /\ AllTestsRun = {}
    /\ ~results.resolved

-----------------------------------------------------------------------------
(* C19, C20: reset_repo and the file arguments of pytest *)

\* main is right after a reset_repo that returned True
AfterResetOk == pc \in {"pre_apply_test", "post_apply_test"}

\* the commands of reset_repo: the clean only after a successful hard reset,
\* success only after both
ResetCommandsInOrder ==
    /\ \A i \in 1..Len(cmds) :
          cmds[i].cmd = "git clean" =>
             i > 1 /\ cmds[i - 1] = [cmd |-> "git reset", ok |-> TRUE]
    /\ \A i \in 1..Len(cmds) :
          (cmds[i].cmd = "git reset" /\ ~cmds[i].ok) => i = Len(cmds)
    /\ AfterResetOk =>
          /\ Len(cmds) >= 2
          /\ cmds[Len(cmds) - 1] = [cmd |-> "git reset", ok |-> TRUE]
          /\ cmds[Len(cmds)] = [cmd |-> "git clean", ok |-> TRUE]

\* C19: reset_repo succeeds only if the hard reset and the clean succeeded,
\* does not run the clean after a failed hard reset, and after a successful
\* reset the working tree has no tracked modification and no file outside the
\* baseline.
C19_ResetGivesBaseline ==
    /\ ResetCommandsInOrder
    /\ AfterResetOk => tree = CleanTree

\* where path stands in the scope
ScopePosition(path) ==
    CHOOSE k \in 1..Len(test_files_to_run) : test_files_to_run[k] = path

\* a run step hands pytest the existing scope entries, in scope order
RunHandsExistingScopeFiles ==
    LET c == cmds'[Len(cmds')]
    IN /\ Len(cmds') = Len(cmds) + 1
       /\ c.cmd = "pytest"
       /\ ListSet(c.files) = ListSet(test_files_to_run) \cap tree.files
       /\ \A i, j \in 1..Len(c.files) :
             i < j => ScopePosition(c.files[i]) < ScopePosition(c.files[j])
       /\ c.kind = "report" => pc' # "write_results"

-----------------------------------------------------------------------------
(* Text: a Python str is the sequence of its characters *)

\* ord(c), for the characters that occur in the model
Ord(c) ==
    CASE c = "\t" -> 9
      [] c = "\n" -> 10
      [] c = " " -> 32
      [] c = "+" -> 43
      [] c = "-" -> 45
      [] c = "." -> 46
      [] c = "/" -> 47
      [] c = "1" -> 49
      [] c = ":" -> 58
      [] c = "=" -> 61
      [] c = "B" -> 66
      [] c = "T" -> 84
      [] c = "_" -> 95
      [] c = "a" -> 97
      [] c = "b" -> 98
      [] c = "c" -> 99
      [] c = "d" -> 100
      [] c = "e" -> 101
      [] c = "f" -> 102
      [] c = "h" -> 104
      [] c = "i" -> 105
      [] c = "k" -> 107
      [] c = "l" -> 108
      [] c = "m" -> 109
      [] c = "n" -> 110
      [] c = "o" -> 111
      [] c = "p" -> 112
      [] c = "r" -> 114
      [] c = "s" -> 115
      [] c = "t" -> 116
      [] c = "u" -> 117
      [] c = "v" -> 118
      [] c = "x" -> 120
      [] c = "y" -> 121

\* c.isupper()
IsUpper(c) == Ord(c) \in 65..90

\* the characters str.strip() removes
IsSpace(c) == c \in {" ", "\t", "\n"}

\* s.startswith(prefix)
StartsWith(s, prefix) ==
    /\ Len(s) >= Len(prefix)
    /\ SubSeq(s, 1, Len(prefix)) = prefix

\* s.endswith(suffix)
EndsWith(s, suffix) ==
    /\ Len(s) >= Len(suffix)
    /\ SubSeq(s, Len(s) - Len(suffix) + 1, Len(s)) = suffix

RECURSIVE Split(_, _, _)
\* s.split(sep, maxsplit) for a separator of one character; maxsplit = -1
\* is Python's default, no limit
Split(s, sep, maxsplit) ==
    LET hits == {k \in 1..Len(s) : s[k] = sep}
    IN IF maxsplit = 0 \/ hits = {} THEN <<s>>
       ELSE LET first == CHOOSE k \in hits : \A j \in hits : k <= j
            IN <<SubSeq(s, 1, first - 1)>>
                   \o Split(SubSeq(s, first + 1, Len(s)), sep, maxsplit - 1)

\* s.strip()
Strip(s) ==
    LET keep == {k \in 1..Len(s) : ~IsSpace(s[k])}
    IN IF keep = {} THEN <<>>
       ELSE SubSeq(s, CHOOSE k \in keep : \A j \in keep : k <= j,
                      CHOOSE k \in keep : \A j \in keep : k >= j)

RECURSIVE Join(_, _)
\* sep.join(parts)
Join(parts, sep) ==
    IF parts = <<>> THEN <<>>
    ELSE IF Len(parts) = 1 THEN parts[1]
    ELSE parts[1] \o sep \o Join(Tail(parts), sep)

RECURSIVE StrLess(_, _)
\* s < t for two str: by the first character that differs, a proper prefix first
StrLess(s, t) ==
    IF t = <<>> THEN FALSE
    ELSE IF s = <<>> THEN TRUE
    ELSE IF s[1] = t[1] THEN StrLess(Tail(s), Tail(t))
    ELSE Ord(s[1]) < Ord(t[1])

RECURSIVE SortedStrs(_)
\* sorted(list(S)) for a set of str
SortedStrs(S) ==
    IF S = {} THEN <<>>
    ELSE LET m == CHOOSE x \in S : \A y \in S \ {x} : StrLess(x, y)
         IN <<m>> \o SortedStrs(S \ {m})

-----------------------------------------------------------------------------
(* Patch Scope Resolver: the loop of get_modified_test_files_from_patch over *)
(* the lines of a patch file that exists and can be read                     *)

OldPrefix == <<"-", "-", "-", " ", "a", "/">>
NewPrefix == <<"+", "+", "+", " ", "b", "/">>
DotPy == <<".", "p", "y">>

\* DEFAULT_TEST_FILES, as text
DefaultTestFilesText ==
    <<<<"t", "e", "s", "t", "s", "/", "r", "e", "f", "e", "r", "e", "n", "c", "e", ".", "p", "y">>,
      <<"t", "e", "s", "t", "s", "/", "t", "e", "s", "t", "_", "k", "e", "r", "n", "s", ".", "p", "y">>,
      <<"t", "e", "s", "t", "s", "/", "t", "e", "s", "t", "_", "l", "i", "k", "e", "l", "i", "h", "o", "o", "d", "s", ".", "p", "y">>>>

\* the paths a patch of ScopeSpec can touch; git ends the header line of a
\* path that holds a space with a tab
ScanPaths ==
    {<<"t", ".", "p", "y">>,
     <<"d", "/", "u", ".", "p", "y">>,
     <<"r", ".", "m", "d">>,
     <<"m", " ", "t", ".", "p", "y">>}

HasSpace(s) == \E k \in 1..Len(s) : s[k] = " "

\* A line of the patch: its text as read from the file, whether it is a file
\* header of the diff, and the path the header names.
PatchLine(h, p, t) == [header |-> h, path |-> p, text |-> t]

\* the '--- a/<path>' and '+++ b/<path>' lines of the diff of a file
HeaderLines ==
    {PatchLine(TRUE, p, prefix \o p \o (IF HasSpace(p) THEN <<"\t">> ELSE <<>>) \o <<"\n">>) :
        prefix \in {OldPrefix, NewPrefix}, p \in ScanPaths}

\* the lines of a hunk: context, removed and added lines of the file's text;
\* the last two remove the line '-- a/v.py' and add the line '++ b/v.py'
HunkLines ==
    {PatchLine(FALSE, <<>>, mark \o body \o <<"\n">>) :
        mark \in {<<" ">>, <<"-">>, <<"+">>},
        body \in {<<"x", " ", "=", " ", "1">>}}
    \cup {PatchLine(FALSE, <<>>, <<"-", "-", "-", " ", "a", "/", "v", ".", "p", "y", "\n">>),
          PatchLine(FALSE, <<>>, <<"+", "+", "+", " ", "b", "/", "v", ".", "p", "y", "\n">>)}

\* the old side of an added file
NullHeaderLine == PatchLine(TRUE, <<"/", "d", "e", "v", "/", "n", "u", "l", "l">>, <<"-", "-", "-", " ", "/", "d", "e", "v", "/", "n", "u", "l", "l", "\n">>)

PatchLines == HeaderLines \cup HunkLines \cup {NullHeaderLine}

\* the body of `for line in f`: modified_files after one more line
ScanPatchLine(files, line) ==
    IF StartsWith(line, OldPrefix) \/ StartsWith(line, NewPrefix)
    THEN LET field == Strip(Split(line, " ", 2)[2])
             path == IF StartsWith(field, <<"a", "/">>) \/ StartsWith(field, <<"b", "/">>)
                     THEN SubSeq(field, 3, Len(field))
                     ELSE field
         IN IF EndsWith(path, DotPy) THEN files \cup {path} ELSE files
    ELSE files

\* modified_files = set() before the loop, for any patch text
ScanInit ==
    /\ MainIdle
    /\ xml_cases = <<>>
    /\ parse_i = 0
    /\ test_results = EmptyMap
    /\ NodeIdIdle
    /\ patch_text \in UNION {[1..n -> PatchLines] : n \in 0..MaxLines}
    /\ scan_i = 0
    /\ modified_files = {}
    /\ file_list = NotReturned

\* one iteration of `for line in f`
ScanNextLine ==
    /\ scan_i < Len(patch_text)
    /\ scan_i' = scan_i + 1
    /\ modified_files' = ScanPatchLine(modified_files, patch_text[scan_i + 1].text)
    /\ UNCHANGED <<patch_text, file_list, main_vars, parse_vars, nodeid_vars>>

\* after the loop: sort, fall back to the default list when nothing was found
ScanReturn ==
    /\ scan_i = Len(patch_text)
    /\ ~file_list.returned
    /\ file_list' = [returned |-> TRUE,
                     files |-> IF SortedStrs(modified_files) = <<>>
                               THEN DefaultTestFilesText
                               ELSE SortedStrs(modified_files)]
    /\ UNCHANGED <<patch_text, scan_i, modified_files, main_vars, parse_vars,
                   nodeid_vars>>

ScanNext == ScanNextLine \/ ScanReturn

ScopeSpec == ScanInit /\ [][ScanNext]_vars

-----------------------------------------------------------------------------
(* C21: the paths of the header lines *)

\* the paths ending in .py that the '--- a/' and '+++ b/' header lines name
QualifyingHeaderPaths ==
    {patch_text[i].path :
        i \in {k \in 1..Len(patch_text) :
                  /\ patch_text[k].header
                  /\ EndsWith(patch_text[k].path, DotPy)}}

\* C21: when the patch has at least one qualifying header path, the list
\* returned is exactly the paths of the '--- a/' and '+++ b/' header lines
\* that end in .py, each once, in ascending order, and holds no path of a
\* line that is not a header.
C21_ExactlyHeaderPaths ==
    (file_list.returned /\ QualifyingHeaderPaths # {}) =>
        file_list.files = SortedStrs(QualifyingHeaderPaths)

-----------------------------------------------------------------------------
(* Test Execution Adapter: the node identifier parse_junit_xml_report builds *)
(* from the classname and name attributes of a testcase element              *)

\* any(c.isupper() for c in class_name)
AnyUpper(cls) == \E k \in 1..Len(cls) : IsUpper(cls[k])

\* parts[:-1]
AllButLast(parts) == SubSeq(parts, 1, Len(parts) - 1)

\* the if/else on class_name that sets nodeid
BuildNodeId(cls, name) ==
    IF cls # <<>>
    THEN LET parts == Split(cls, ".", -1)
             module_path_parts == AllButLast(parts)
             class_name_only == parts[Len(parts)]
         IN IF AnyUpper(cls)
            THEN LET file_path == IF module_path_parts # <<>>
                                  THEN Join(module_path_parts, <<"/">>) \o DotPy
                                  ELSE class_name_only \o DotPy
                 IN file_path \o <<":", ":">> \o class_name_only
                              \o <<":", ":">> \o name
            ELSE Join(parts, <<"/">>) \o DotPy \o <<":", ":">> \o name
    ELSE name

\* the dot-separated segments of the classnames of NodeIdSpec
Segments == {<<"t">>, <<"m">>, <<"T">>, <<"t", "B">>}

\* the classname attributes: absent or empty, or up to MaxSegments segments
ClassNames ==
    {Join(segs, <<".">>) : segs \in UNION {[1..n -> Segments] : n \in 0..MaxSegments}}

\* the name attributes
TestNames == {<<"n">>, <<"t", "_", "x">>}

\* a testcase element before its nodeid is built
NodeIdInit ==
    /\ MainIdle
    /\ xml_cases = <<>>
    /\ parse_i = 0
    /\ test_results = EmptyMap
    /\ ScanIdle
    /\ class_name \in ClassNames
    /\ test_name \in TestNames
    /\ nodeid = <<>>

\* nodeid = ... for the testcase element (a name is never empty here, so an
\* empty nodeid is one not yet built)
ComputeNodeId ==
    /\ nodeid = <<>>
    /\ nodeid' = BuildNodeId(class_name, test_name)
    /\ UNCHANGED <<class_name, test_name, main_vars, parse_vars, scan_vars>>

NodeIdNext == ComputeNodeId

NodeIdSpec == NodeIdInit /\ [][NodeIdNext]_vars

-----------------------------------------------------------------------------
(* C22: the two forms of a node identifier *)

\* the classname has a segment that begins with an upper-case letter
HasUpperLedSegment(cls) ==
    LET parts == Split(cls, ".", -1)
    IN \E i \in 1..Len(parts) : parts[i] # <<>> /\ IsUpper(parts[i][1])

\* module/path.py::ClassName::test_name
ClassForm(cls, name) ==
    LET parts == Split(cls, ".", -1)
    IN Join(AllButLast(parts), <<"/">>) \o DotPy \o <<":", ":">>
           \o parts[Len(parts)] \o <<":", ":">> \o name

\* module/path.py::test_name
FlatForm(cls, name) ==
    Join(Split(cls, ".", -1), <<"/">>) \o DotPy \o <<":", ":">> \o name

\* C22: the node identifier of a test case whose classname has a module part
\* and a last segment is module/path.py::ClassName::test_name exactly when the
\* classname has a segment that begins with an upper-case letter, and
\* module/path.py::test_name otherwise.
C22_NodeIdForm ==
    (nodeid # <<>> /\ Len(Split(class_name, ".", -1)) >= 2) =>
        nodeid = IF HasUpperLedSegment(class_name)
                 THEN ClassForm(class_name, test_name)
                 ELSE FlatForm(class_name, test_name)

-----------------------------------------------------------------------------
(* C23..C25: the persisted record *)

\* the failure lists of the desirable transitions and the success lists of
\* the undesirable ones are empty
WrongSideListsEmpty(ts) ==
    /\ ts["FAIL_TO_PASS"].failure = <<>>
    /\ ts["PASS_TO_PASS"].failure = <<>>
    /\ ts["FAIL_TO_FAIL"].success = <<>>
    /\ ts["PASS_TO_FAIL"].success = <<>>

\* C23: in the record, at any time and as persisted, the failure lists of
\* FAIL_TO_PASS and PASS_TO_PASS and the success lists of FAIL_TO_FAIL and
\* PASS_TO_FAIL are empty.
C23_WrongSideEmpty ==
    /\ WrongSideListsEmpty(results.tests_status)
    /\ results_json.written => WrongSideListsEmpty(results_json.record.tests_status)

C23_Witness ==
    /\ results_json.written
    /\ results_json.record.tests_status["FAIL_TO_PASS"].success # <<>>
    /\ results_json.record.tests_status["FAIL_TO_FAIL"].failure # <<>>

\* the post-phase reset and the two post-phase applies all returned success
PostStackApplied ==
    /\ Len(steps) >= 7
    /\ steps[5] = Step("reset", TRUE)
    /\ steps[6] = Step("apply_test", TRUE)
    /\ steps[7] = Step("apply_code", TRUE)

\* C24: patch_successfully_applied is true in the record, at any time and as
\* persisted, exactly when the post-phase reset, the apply of the test patch
\* and the apply of the code patch have returned success, in this order; the
\* apply of an absent code patch counts as a success.
C24_PatchSuccessfullyApplied ==
    /\ results.patch_successfully_applied <=> PostStackApplied
    /\ results_json.written =>
          (results_json.record.patch_successfully_applied <=> PostStackApplied)
    /\ (~code_patch.exists /\ Len(steps) >= 7 /\ steps[7].step = "apply_code")
          => PostStackApplied

C24_Witness ==
    /\ results_json.written
    /\ results_json.record.patch_successfully_applied
    /\ ~code_patch.exists
    /\ Aborted

\* C25: the record persisted from an aborted job has eight empty bucket lists
\* and resolved = false; before the classification the record has empty
\* buckets and resolved = false.
C25_AbortedRecordEmpty ==
    /\ (Aborted /\ results_json.written) =>
          /\ results_json.record.tests_status = EmptyBuckets
          /\ ~results_json.record.resolved
    /\ ~Classified =>
          /\ results.tests_status = EmptyBuckets
          /\ ~results.resolved

C25_Witness ==
    /\ Aborted
    /\ results_json.written
    /\ steps[Len(steps) - 1] = Step("run_pre", FALSE)
    /\ results_json.record.tests_status = EmptyBuckets

-----------------------------------------------------------------------------
(* C26: termination *)

\* how often the write of the record has been attempted
PersistAttempts ==
    Cardinality({i \in 1..Len(steps) : steps[i].step = "persist"})

\* C26: every job eventually exits; it has then either classified or aborted,
\* not both, and has attempted the write of the record exactly once, as its
\* last step; before the exit no write is attempted and after it no step is
\* performed.
C26_TerminatesOnce ==
    /\ <>Exited
    /\ [](Exited => /\ PersistAttempts = 1
                    /\ steps[Len(steps)].step = "persist"
                    /\ Classified # Aborted)
    /\ [](~Exited => PersistAttempts = 0)
    /\ [][~Exited]_vars

C26_Witness ==
    /\ Exited
    /\ Aborted
    /\ PersistAttempts = 1
    /\ ~results_json.written
    /\ steps[Len(steps) - 1] = Step("apply_code", FALSE)

====
